---- MODULE Spec2Model ----
(***************************************************************************)
(* Payment-completion relay (Paystack -> Telegram / e-mail / Sender.net /  *)
(* FetchApp).  The repository holds four near-identical servers; the model *)
(* picks one of them (variant) and its configuration in Init and then      *)
(* runs the HTTP handlers of that server.                                  *)
(*                                                                         *)
(*   "MailerSend"  src/server.js            1 ..  618                      *)
(*   "FetchApp"    src/server.js          620 .. 1055                      *)
(*   "Sender"      src/unnamed/part_000     1 ..  584                      *)
(*   "SMTP"        src/unnamed/part_000   586 .. 1013                      *)
(*                                                                         *)
(* Node runs one callback at a time.  An action is the code that runs from *)
(* one I/O completion to the next outbound call: continuations of promises *)
(* that are already settled (a return or a throw of an async function) run *)
(* in the microtask queue, before any other request's I/O callback, so     *)
(* they belong to the same action.  Outbound calls (gateway verify, chat   *)
(* alert, e-mail, list subscription, fulfillment order) complete in their  *)
(* own action with an outcome chosen by the environment; a call that never *)
(* completes is the action never being taken.                              *)
(***************************************************************************)
EXTENDS Naturals, FiniteSets, Sequences, TLC

VARIABLES
    variant,               \* which of the four servers runs
    config,                \* its configuration (environment, start-up result)
    processedReferences,   \* const processedReferences = new Set()
    reqs,                  \* the inbound requests, by arrival number
    calc                   \* the value the data path under study computed

vars == <<variant, config, processedReferences, reqs, calc>>

\* ---------------------------------------------------------------- bounds
MaxReq == 2

ReqIds == 1..MaxReq

\* ------------------------------------------------------------ vocabulary
Variants == {"MailerSend", "FetchApp", "Sender", "SMTP"}

Refs == {"txn_1", "txn_2"}

Collabs == {"telegram", "email", "sender", "fetchapp"}

NoCalls == [c \in Collabs |-> 0]

\* The servers' configuration that the handlers read.
\*   mailerSend  : the MailerSend client was initialised at start-up
\*   sender      : SENDER_API_KEY and SENDER_GROUP_ID are both set
\*   useFetchApp : USE_FETCHAPP is 'true'
Configs ==
    [mailerSend : BOOLEAN, sender : BOOLEAN, useFetchApp : BOOLEAN]

\* A flag matters only to the variant that reads it; elsewhere it is pinned.
ConfigsOf(v) ==
    { c \in Configs :
        /\ (v # "MailerSend" => c.mailerSend)
        /\ (v # "Sender" => (c.sender /\ ~c.useFetchApp)) }

\* ------------------------------------------------- webhook signature check
Events == {"charge.success", "charge.failed"}

\* The bytes of a webhook body: its JSON content and how it is laid out.
RawBodies ==
    [event : Events, reference : Refs, layout : {"compact", "spaced"}]

\* express.json(): the parsed body keeps the content and forgets the layout.
JsonParse(raw) == [event |-> raw.event, reference |-> raw.reference]

\* JSON.stringify(req.body): always the compact layout.
JsonStringify(body) ==
    [event |-> body.event, reference |-> body.reference, layout |-> "compact"]

\* HMAC-SHA-512 hex digest under the fixed secret: distinct bytes, distinct
\* digests.  PAYSTACK_SECRET_KEY is set (without it createHmac throws and
\* the handler's catch answers 500 before any comparison).
Hmac(bytes) == [of |-> bytes]

\* The x-paystack-signature header: absent, or some digest.
MissingHeader == [present |-> FALSE, digest |-> Hmac(JsonStringify([event |-> "charge.failed", reference |-> "txn_1"]))]

SignatureHeaders ==
    {MissingHeader} \cup { [present |-> TRUE, digest |-> Hmac(b)] : b \in RawBodies }

\* Mutant: a request without the header skips the comparison.
SignatureMatches_OnlyIfPresent(raw, header) ==
    ~header.present \/ Hmac(JsonStringify(JsonParse(raw))) = header.digest

\* hash !== req.headers['x-paystack-signature'] is false.
SignatureMatches(raw, header) ==
    header.present /\ Hmac(JsonStringify(JsonParse(raw))) = header.digest

\* ------------------------------------------------------- gateway verify
\* What GET /transaction/verify/:reference can answer:
\*   "error"      the call throws (network error, non-2xx)
\*   "statusFalse" verify.data.status is false
\*   "abandoned"  verify.data.status is true, data.status is not 'success'
\*   "success"    verify.data.status is true, data.status is 'success'
VerifyOutcomes == {"error", "statusFalse", "abandoned", "success"}

\* Mutant: only the top-level status is looked at.
VerifySuccessful_TopLevelOnly(v) == v # "statusFalse" /\ v # "error"

\* verify.data?.status && data?.status === 'success'
VerifySuccessful(v) == v = "success"

\* ---------------------------------------------------------------- requests
Kinds ==
    {"none", "initialize", "processOrder", "webhook",
     "notify", "createOrder", "verifyPayment", "health"}

\* pc: where the request's handler (and the fan-out it started) stands
\*   "idle"       not yet arrived
\*   "initializing" initialize-payment awaits the gateway initialize call
\*   "verifying"  process-order awaits the gateway verify call
\*   "telegram"   handleSuccessfulPayment awaits the chat alert
\*   "second"     handleSuccessfulPayment awaits the call that follows it
\*   "notifying"  send-telegram-notification awaits its Telegram call
\*   "ordering"   create-fetchapp-order awaits its FetchApp call
\*   "checking"   verify-payment awaits the gateway verify call
\*   "done"       nothing of this request is left to run
\* outcome: how handleSuccessfulPayment ended for this request
\*   "none" | "already" | "committed" | "threw"
\* gateway: the calls this request made to the payment gateway
\* History kept for the properties:
\*   invalid   a required body field was missing (empty, zero) on arrival
\*   gone      the request was made to a process that has since been
\*             restarted; outcome "killed" if the restart cut its invocation
\*   hmacEq    the webhook's header equals the HMAC the handler computes
\*   sigOk     the webhook handler went past its signature check
\*   verified  what the gateway verify call answered
\*   checked   the invocation evaluated processedReferences.has(reference)
\*   admitted  ... and found the reference absent
\*   failed    the collaborators whose call failed or threw
\*   after     the requests answered before this one arrived
\*   overlap   the requests for the same reference that were between their
\*             has() and the end of their invocation at this one's has()
\*   prior     the requests for the same reference whose invocation had
\*             ended at this one's has()
NoReq ==
    [ kind |-> "none", ref |-> "", pc |-> "idle", awaited |-> FALSE,
      resp |-> 0, msg |-> "", outcome |-> "none", calls |-> NoCalls,
      gateway |-> 0, hmacEq |-> FALSE, sigOk |-> FALSE, event |-> "",
      verified |-> "", checked |-> FALSE, admitted |-> FALSE, failed |-> {},
      after |-> {}, overlap |-> {}, prior |-> {}, invalid |-> FALSE, gone |-> FALSE ]

Answered(q) == q.resp # 0

\* Between processedReferences.has(reference) and the end of the invocation.
InFlight(q) == q.admitted /\ q.outcome = "none"

\* The data path (DataSpec) has computed nothing; the request handling of
\* Spec leaves this as it is.
NoCalc == [op |-> "idle"]

Init ==
    /\ variant \in Variants
    /\ config \in ConfigsOf(variant)
    /\ processedReferences = {}
    /\ reqs = [i \in ReqIds |-> NoReq]
    /\ calc = NoCalc

\* Requests are numbered in the order they arrive.
Arrives(i) ==
    /\ reqs[i].pc = "idle"
    /\ \A k \in ReqIds : k < i => reqs[k].pc # "idle"

AnsweredNow == { k \in ReqIds : Answered(reqs[k]) }

\* res.status(s).json({message: m}) / res.sendStatus(s)
Respond(q, s, m) == [q EXCEPT !.resp = s, !.msg = m]

\* One outbound call to collaborator c.
Call(q, c) == [q EXCEPT !.calls[c] = @ + 1]

\* ------------------------------------------------ handleSuccessfulPayment
\* A step of handleSuccessfulPayment yields the request's next record and
\* whether processedReferences.add(reference) ran.

\* Mutant: the reference is recorded on the failure path as well.
Throws_Adds(q) ==
    [ q |-> IF q.awaited
              THEN Respond([q EXCEPT !.pc = "done", !.outcome = "threw"], 500, "Server error")
              ELSE [q EXCEPT !.pc = "done", !.outcome = "threw"],
      add |-> TRUE ]

\* Mutant: the failure is answered with 500 whoever started the invocation.
Throws_Surfaces(q) ==
    [ q |-> Respond([q EXCEPT !.pc = "done", !.outcome = "threw"], 500, "Server error"),
      add |-> FALSE ]

\* Mutant: a failed invocation sends the chat alert once more before it
\* gives up.
Throws_Retries(q) ==
    IF q.calls["telegram"] < 2
      THEN [ q |-> [Call(q, "telegram") EXCEPT !.pc = "telegram"], add |-> FALSE ]
      ELSE [ q |-> IF q.awaited
                     THEN Respond([q EXCEPT !.pc = "done", !.outcome = "threw"],
                                  500, "Server error")
                     ELSE [q EXCEPT !.pc = "done", !.outcome = "threw"],
             add |-> FALSE ]

\* Mutant: the route has no catch, and a throw ends the request unanswered.
Throws_Unanswered(q) ==
    [ q |-> [q EXCEPT !.pc = "done", !.outcome = "threw"], add |-> FALSE ]

\* The invocation throws: the caller that awaits it (process-order) answers
\* 500 from its catch block; the webhook's .catch() only logs.
Throws(q) ==
    [ q |-> IF q.awaited
              THEN Respond([q EXCEPT !.pc = "done", !.outcome = "threw"], 500, "Server error")
              ELSE [q EXCEPT !.pc = "done", !.outcome = "threw"],
      add |-> FALSE ]

\* Mutant: the invocation returns without recording the reference.
Commits_NoAdd(q) ==
    [ q |-> IF q.awaited
              THEN Respond([q EXCEPT !.pc = "done", !.outcome = "committed"], 200, "Processed")
              ELSE [q EXCEPT !.pc = "done", !.outcome = "committed"],
      add |-> FALSE ]

\* processedReferences.add(reference); return { alreadyProcessed: false }
Commits(q) ==
    [ q |-> IF q.awaited
              THEN Respond([q EXCEPT !.pc = "done", !.outcome = "committed"], 200, "Processed")
              ELSE [q EXCEPT !.pc = "done", !.outcome = "committed"],
      add |-> TRUE ]

\* Mutant: the chat alert goes out before the duplicate is reported.
Duplicate_Alerts(q) ==
    [ q |-> IF q.awaited
              THEN Respond([Call(q, "telegram") EXCEPT !.pc = "done", !.outcome = "already"],
                           200, "Already processed")
              ELSE [Call(q, "telegram") EXCEPT !.pc = "done", !.outcome = "already"],
      add |-> FALSE ]

\* return { alreadyProcessed: true }
Duplicate(q) ==
    [ q |-> IF q.awaited
              THEN Respond([q EXCEPT !.pc = "done", !.outcome = "already"], 200, "Already processed")
              ELSE [q EXCEPT !.pc = "done", !.outcome = "already"],
      add |-> FALSE ]

\* await axios.post(...): the call is out, the invocation waits for it.
Awaits(q, c, pc) == [ q |-> [Call(q, c) EXCEPT !.pc = pc], add |-> FALSE ]

\* Mutant: the reference is recorded at admission, before the fan-out.
Enter_Reserves(q, seen) ==
    LET c == [q EXCEPT !.checked = TRUE, !.overlap = seen.overlap, !.prior = seen.prior]
    IN  IF q.ref \in processedReferences
          THEN Duplicate(c)
          ELSE [ Awaits([c EXCEPT !.admitted = TRUE], "telegram", "telegram")
                   EXCEPT !.add = TRUE ]

\* Mutant: any recorded reference makes the invocation a duplicate.
Enter_AnyReference(q, seen) ==
    LET c == [q EXCEPT !.checked = TRUE, !.overlap = seen.overlap, !.prior = seen.prior]
    IN  IF processedReferences # {}
          THEN Duplicate(c)
          ELSE Awaits([c EXCEPT !.admitted = TRUE], "telegram", "telegram")

\* Mutant: each entry point keeps its own record of what it committed.
Enter_PerEntryPoint(q, seen) ==
    LET c == [q EXCEPT !.checked = TRUE, !.overlap = seen.overlap, !.prior = seen.prior]
    IN  IF \E k \in seen.prior : reqs[k].kind = q.kind /\ reqs[k].outcome = "committed"
          THEN Duplicate(c)
          ELSE Awaits([c EXCEPT !.admitted = TRUE], "telegram", "telegram")

\* Entry: the has() check, then the chat alert goes out.
Enter(q, seen) ==
    LET c == [q EXCEPT !.checked = TRUE, !.overlap = seen.overlap, !.prior = seen.prior]
    IN  IF q.ref \in processedReferences
          THEN Duplicate(c)
          ELSE Awaits([c EXCEPT !.admitted = TRUE], "telegram", "telegram")

\* Sender variant, after addSubscriberToSender: the optional FetchApp block
\* reads FETCHAPP_KEY, which this server never declares (a ReferenceError).
AfterSender(q) ==
    IF config.useFetchApp
      THEN Throws([q EXCEPT !.failed = @ \cup {"fetchapp"}])
      ELSE Commits(q)

\* Mutant: a Sender server without credentials fails the invocation.
AfterTelegram_SenderRequired(q) ==
    CASE variant = "MailerSend" ->
           IF config.mailerSend THEN Awaits(q, "email", "second")
           ELSE Throws([q EXCEPT !.failed = @ \cup {"email"}])
      [] variant = "SMTP" -> Awaits(q, "email", "second")
      [] variant = "FetchApp" -> Awaits(q, "fetchapp", "second")
      [] variant = "Sender" ->
           IF config.sender THEN Awaits(q, "sender", "second")
           ELSE Throws([q EXCEPT !.failed = @ \cup {"sender"}])

\* The chat alert succeeded: what follows it.
AfterTelegram(q) ==
    CASE variant = "MailerSend" ->
           IF config.mailerSend THEN Awaits(q, "email", "second")
           ELSE Throws([q EXCEPT !.failed = @ \cup {"email"}])
      [] variant = "SMTP" -> Awaits(q, "email", "second")
      [] variant = "FetchApp" -> Awaits(q, "fetchapp", "second")
      [] variant = "Sender" ->
           IF config.sender THEN Awaits(q, "sender", "second")
           ELSE AfterSender(q)

\* The collaborator the variant calls after the chat alert.
SecondCollab ==
    CASE variant \in {"MailerSend", "SMTP"} -> "email"
      [] variant = "FetchApp" -> "fetchapp"
      [] variant = "Sender" -> "sender"

\* The chat alert's call completed.
OnTelegram(q, ok) ==
    IF ok THEN AfterTelegram(q)
    ELSE Throws([q EXCEPT !.failed = @ \cup {"telegram"}])

\* Mutant: a failed second call is swallowed in every variant.
OnSecond_Swallows(q, ok) ==
    IF variant = "Sender"
      THEN AfterSender(IF ok THEN q ELSE [q EXCEPT !.failed = @ \cup {"sender"}])
      ELSE Commits(IF ok THEN q ELSE [q EXCEPT !.failed = @ \cup {SecondCollab}])

\* Mutant: a failed list subscription is rethrown like a failed e-mail.
OnSecond_Rethrows(q, ok) ==
    IF ~ok THEN Throws([q EXCEPT !.failed = @ \cup {SecondCollab}])
    ELSE IF variant = "Sender" THEN AfterSender(q) ELSE Commits(q)

\* The second call completed.  addSubscriberToSender catches its error and
\* returns { success: false }; the other senders rethrow.
OnSecond(q, ok) ==
    IF variant = "Sender"
      THEN AfterSender(IF ok THEN q ELSE [q EXCEPT !.failed = @ \cup {"sender"}])
      ELSE IF ok THEN Commits(q)
           ELSE Throws([q EXCEPT !.failed = @ \cup {SecondCollab}])

\* What request i finds of the other invocations for reference r when it
\* evaluates has(r).
Seen(r, i) ==
    [ overlap |-> { k \in ReqIds \ {i} : reqs[k].ref = r /\ InFlight(reqs[k]) },
      prior   |-> { k \in ReqIds \ {i} : reqs[k].ref = r /\ reqs[k].outcome # "none" } ]

\* Mutant: an invocation that throws takes its reference out of the set.
Step_DropsOnThrow(i, st) ==
    /\ reqs' = [reqs EXCEPT ![i] = st.q]
    /\ processedReferences' =
         IF st.add THEN processedReferences \cup {st.q.ref}
         ELSE IF st.q.outcome = "threw" THEN processedReferences \ {st.q.ref}
         ELSE processedReferences
    /\ UNCHANGED <<variant, config, calc>>

\* The state after a step of request i that yields st.
Step(i, st) ==
    /\ reqs' = [reqs EXCEPT ![i] = st.q]
    /\ processedReferences' =
         IF st.add THEN processedReferences \cup {st.q.ref} ELSE processedReferences
    /\ UNCHANGED <<variant, config, calc>>

\* ------------------------------------------------------------- handlers
\* Body fields of a process-order request; "" is a missing field.
Emails == {"", "a@b.com"}

FullNames == {"", "Jane Doe"}

References == {""} \cup Refs

\* Mutant: the reference is not among the fields looked at.
MissingFields_NoReference(email, fullName, reference) ==
    email = "" \/ fullName = ""

\* !email || !fullName || !reference
MissingFields(email, fullName, reference) ==
    email = "" \/ fullName = "" \/ reference = ""

\* POST /api/process-order, up to the gateway verify call.
ProcessOrderArrival(q, email, fullName, reference) ==
    IF MissingFields(email, fullName, reference)
      THEN Respond([q EXCEPT !.pc = "done"], 400, "Missing email, fullName or reference")
      ELSE [q EXCEPT !.pc = "verifying", !.gateway = @ + 1]

ProcessOrderReceive(i) ==
    /\ Arrives(i)
    /\ \E email \in Emails, fullName \in FullNames, reference \in References :
         Step(i, [ q |-> ProcessOrderArrival(
                           [reqs[i] EXCEPT !.kind = "processOrder", !.ref = reference,
                                           !.awaited = TRUE, !.after = AnsweredNow,
                                           !.invalid = (\/ email = ""
                                                        \/ fullName = ""
                                                        \/ reference = "")],
                           email, fullName, reference),
                   add |-> FALSE ])

\* Body amount of an initialize-payment request, in major units; 0 stands
\* for a missing (or zero) amount.
BodyAmounts == {0, 4900}

\* What POST /transaction/initialize can answer:
\*   "error"        the call throws
\*   "statusFalse"  paystackResponse.data.status is false
\*   "ok"           paystackResponse.data.status is true
InitializeOutcomes == {"error", "statusFalse", "ok"}

\* !email || !fullName || !amount
MissingInitFields(email, fullName, amount) ==
    email = "" \/ fullName = "" \/ amount = 0

\* POST /api/initialize-payment, up to the gateway initialize call.  The
\* reference is generated by the handler; the request carries none.
InitializeArrival(q, email, fullName, amount) ==
    IF MissingInitFields(email, fullName, amount)
      THEN Respond([q EXCEPT !.pc = "done"], 400,
                   "Missing required fields: email, fullName, amount")
      ELSE [q EXCEPT !.pc = "initializing", !.gateway = @ + 1]

InitializeReceive(i) ==
    /\ Arrives(i)
    /\ \E email \in Emails, fullName \in FullNames, amount \in BodyAmounts :
         Step(i, [ q |-> InitializeArrival(
                           [reqs[i] EXCEPT !.kind = "initialize", !.awaited = TRUE,
                                           !.after = AnsweredNow,
                                           !.invalid = (\/ email = ""
                                                        \/ fullName = ""
                                                        \/ amount = 0)],
                           email, fullName, amount),
                   add |-> FALSE ])

\* POST /api/initialize-payment, from the gateway call's completion on.
InitializeAnswered(q, v) ==
    CASE v = "error" ->
           Respond([q EXCEPT !.pc = "done"], 500, "Server error during payment initialization")
      [] v = "statusFalse" ->
           Respond([q EXCEPT !.pc = "done"], 400, "Failed to initialize payment")
      [] v = "ok" -> Respond([q EXCEPT !.pc = "done"], 200, "OK")

InitializeReturns(i) ==
    /\ reqs[i].pc = "initializing"
    /\ \E v \in InitializeOutcomes :
         Step(i, [ q |-> InitializeAnswered(reqs[i], v), add |-> FALSE ])

\* Mutant: only a thrown verify call stops the request; the verification
\* record's status is not looked at.
ProcessOrderVerified_IgnoresStatus(q, v, seen) ==
    IF v = "error"
      THEN [ q |-> Respond([q EXCEPT !.pc = "done"], 500, "Server error"), add |-> FALSE ]
      ELSE Enter(q, seen)

\* Mutant: a verify call that throws is taken for a verified payment.
ProcessOrderVerified_IgnoresError(q, v, seen) ==
    IF v # "error" /\ ~VerifySuccessful(v)
      THEN [ q |-> Respond([q EXCEPT !.pc = "done"], 400, "Verification failed"),
             add |-> FALSE ]
      ELSE Enter(q, seen)

\* POST /api/process-order, from the verify call's completion on.
ProcessOrderVerified(q, v, seen) ==
    IF v = "error"
      THEN [ q |-> Respond([q EXCEPT !.pc = "done"], 500, "Server error"), add |-> FALSE ]
      ELSE IF ~VerifySuccessful(v)
        THEN [ q |-> Respond([q EXCEPT !.pc = "done"], 400, "Verification failed"),
               add |-> FALSE ]
        ELSE Enter(q, seen)

VerifyReturns(i) ==
    /\ reqs[i].pc = "verifying"
    /\ \E v \in VerifyOutcomes :
         Step(i, ProcessOrderVerified([reqs[i] EXCEPT !.verified = v], v,
                                      Seen(reqs[i].ref, i)))

\* Mutant: the webhook awaits handleSuccessfulPayment like process-order
\* does, and answers when it ends.
WebhookHandled_Awaiting(q, raw, header, seen) ==
    IF ~SignatureMatches(raw, header)
      THEN [ q |-> Respond([q EXCEPT !.pc = "done"], 400, "Bad Request"), add |-> FALSE ]
      ELSE LET ok == [q EXCEPT !.sigOk = TRUE, !.awaited = TRUE]
           IN  IF JsonParse(raw).event = "charge.success"
                 THEN Enter(ok, seen)
                 ELSE [ q |-> Respond([ok EXCEPT !.pc = "done"], 200, "OK"), add |-> FALSE ]

\* Mutant: the webhook asks the gateway about the transaction as well.
WebhookHandled_Verifies(q, raw, header, seen) ==
    IF ~SignatureMatches(raw, header)
      THEN [ q |-> Respond([q EXCEPT !.pc = "done"], 400, "Bad Request"), add |-> FALSE ]
      ELSE LET ok == [q EXCEPT !.sigOk = TRUE, !.gateway = @ + 1]
               st == IF JsonParse(raw).event = "charge.success"
                       THEN Enter(ok, seen)
                       ELSE [ q |-> [ok EXCEPT !.pc = "done"], add |-> FALSE ]
           IN  [ q |-> Respond(st.q, 200, "OK"), add |-> st.add ]

\* Mutant: every signed webhook starts the fan-out, whatever its event.
WebhookHandled_AnyEvent(q, raw, header, seen) ==
    IF ~SignatureMatches(raw, header)
      THEN [ q |-> Respond([q EXCEPT !.pc = "done"], 400, "Bad Request"), add |-> FALSE ]
      ELSE LET st == Enter([q EXCEPT !.sigOk = TRUE], seen)
           IN  [ q |-> Respond(st.q, 200, "OK"), add |-> st.add ]

\* POST /api/webhook/paystack: the whole handler is synchronous.  Once the
\* signature matches, a charge.success event starts handleSuccessfulPayment
\* without awaiting it, and 200 is sent.
WebhookHandled(q, raw, header, seen) ==
    IF ~SignatureMatches(raw, header)
      THEN [ q |-> Respond([q EXCEPT !.pc = "done"], 400, "Bad Request"), add |-> FALSE ]
      ELSE LET ok == [q EXCEPT !.sigOk = TRUE]
               st == IF JsonParse(raw).event = "charge.success"
                       THEN Enter(ok, seen)
                       ELSE [ q |-> [ok EXCEPT !.pc = "done"], add |-> FALSE ]
           IN  [ q |-> Respond(st.q, 200, "OK"), add |-> st.add ]

WebhookReceive(i) ==
    /\ Arrives(i)
    /\ \E raw \in RawBodies, header \in SignatureHeaders :
         Step(i, WebhookHandled(
                   [reqs[i] EXCEPT !.kind = "webhook", !.ref = JsonParse(raw).reference,
                                   !.event = JsonParse(raw).event, !.awaited = FALSE,
                                   !.after = AnsweredNow,
                                   !.hmacEq = (/\ header.present
                                               /\ header.digest = Hmac(JsonStringify(JsonParse(raw))))],
                   raw, header, Seen(JsonParse(raw).reference, i)))

\* The chat alert's call returns or fails.
TelegramReturns(i) ==
    /\ reqs[i].pc = "telegram"
    /\ \E ok \in BOOLEAN : Step(i, OnTelegram(reqs[i], ok))

\* The call after the chat alert returns or fails.
SecondReturns(i) ==
    /\ reqs[i].pc = "second"
    /\ \E ok \in BOOLEAN : Step(i, OnSecond(reqs[i], ok))

Next ==
    \E i \in ReqIds :
        \/ InitializeReceive(i)
        \/ InitializeReturns(i)
        \/ ProcessOrderReceive(i)
        \/ VerifyReturns(i)
        \/ WebhookReceive(i)
        \/ TelegramReturns(i)
        \/ SecondReturns(i)

Spec == Init /\ [][Next]_vars

\* An outbound call of a process-order request returns or fails.
Returns ==
    \E i \in ReqIds :
        \/ VerifyReturns(i)
        \/ TelegramReturns(i)
        \/ SecondReturns(i)

\* As long as a call is out, one of the calls that are out returns or fails
\* in the end; the requests being finitely many, every call does.
CallsReturn == WF_vars(Returns)

\* The process-order requests and their calls.
ProcessOrderNext ==
    \/ \E i \in ReqIds : ProcessOrderReceive(i)
    \/ Returns

\* The handling of process-order requests under that assumption.
FairSpec == Init /\ [][ProcessOrderNext]_vars /\ CallsReturn

\* ---------------------------------------------------------- process restart
\* What becomes of a request when the process that serves it stops.
Stopped(q) ==
    IF q.pc = "idle" THEN q
    ELSE [q EXCEPT !.gone = TRUE,
                   !.pc = "done",
                   !.outcome = IF q.admitted /\ q.outcome = "none" THEN "killed" ELSE @]

\* Mutant: the new process finds the set of the old one.
Restart_KeepsSet ==
    /\ processedReferences # {}
    /\ reqs' = [i \in ReqIds |-> Stopped(reqs[i])]
    /\ UNCHANGED <<variant, config, processedReferences, calc>>

\* The process is restarted once it has committed some reference (before
\* that a restart has nothing to forget): the module is loaded again,
\* const processedReferences = new Set(), and what the old process was
\* doing is lost.
Restart ==
    /\ processedReferences # {}
    /\ reqs' = [i \in ReqIds |-> Stopped(reqs[i])]
    /\ processedReferences' = {}
    /\ UNCHANGED <<variant, config, calc>>

RestartNext == Next \/ Restart

RestartSpec == Init /\ [][RestartNext]_vars

\* ============================================================ data path
\* The values the handlers compute from a request before the fan-out, as
\* pure functions of the request.  Strings are sequences of characters.

\* Longest input string of esc and of the name split.
MaxLen == 3

\* Largest gateway amount, in minor units, tried besides the named ones.
MaxMinor == 3

\* The largest small checkout amount, in major units.
MaxMajor == 3

RECURSIVE StringsUpTo(_, _)
StringsUpTo(chars, n) ==
    IF n = 0 THEN {<<>>}
    ELSE LET shorter == StringsUpTo(chars, n - 1)
         IN  shorter \cup { Append(s, c) : s \in shorter, c \in chars }

\* JavaScript values: undefined, null, a string, a number.  A number is
\* carried in halves of a unit (n = 3 is 1.5) so that Math.round rounds.
Undefined == [t |-> "undefined", s |-> <<>>, n |-> 0]

Null == [t |-> "null", s |-> <<>>, n |-> 0]

Str(s) == [t |-> "string", s |-> s, n |-> 0]

Num(halves) == [t |-> "number", s |-> <<>>, n |-> halves]

\* !v
Falsy(v) ==
    \/ v.t \in {"undefined", "null"}
    \/ v.t = "string" /\ v.s = <<>>
    \/ v.t = "number" /\ v.n = 0

\* v || d
Or(v, d) == IF Falsy(v) THEN d ELSE v

\* A destructured parameter's default: used for undefined only.
Default(v, d) == IF v.t = "undefined" THEN d ELSE v

Digits == <<"0", "1", "2", "3", "4", "5", "6", "7", "8", "9">>

RECURSIVE NatChars(_)
NatChars(n) ==
    IF n < 10 THEN <<Digits[n + 1]>>
    ELSE Append(NatChars(n \div 10), Digits[(n % 10) + 1])

\* An amount in major units, given as whole units and hundredths, as the
\* template literal prints it.
AmountChars(a) ==
    NatChars(a.whole) \o
    ( IF a.hundredths = 0 THEN <<>>
      ELSE <<".", Digits[(a.hundredths \div 10) + 1]>> \o
           (IF a.hundredths % 10 = 0 THEN <<>> ELSE <<Digits[(a.hundredths % 10) + 1]>>) )

\* String(v)
StringOf(v) ==
    CASE v.t = "string" -> v.s
      [] v.t = "null" -> <<"n", "u", "l", "l">>
      [] v.t = "undefined" -> <<"u", "n", "d", "e", "f", "i", "n", "e", "d">>
      [] v.t = "number" -> AmountChars([whole |-> v.n \div 2, hundredths |-> 50 * (v.n % 2)])

\* s.replace(/ch/g, by)
RECURSIVE ReplaceAll(_, _, _)
ReplaceAll(s, ch, by) ==
    IF s = <<>> THEN <<>>
    ELSE (IF Head(s) = ch THEN by ELSE <<Head(s)>>) \o ReplaceAll(Tail(s), ch, by)

AmpEntity == <<"&", "a", "m", "p", ";">>

LtEntity == <<"&", "l", "t", ";">>

GtEntity == <<"&", "g", "t", ";">>

\* Mutant: the pass that replaces '>' is missing.
esc_NoGt(v) ==
    ReplaceAll(ReplaceAll(StringOf(Default(v, Str(<<>>))), "&", AmpEntity), "<", LtEntity)

\* esc = (s = '') => String(s).replace(/&/g,'&amp;').replace(/</g,'&lt;')
\*                            .replace(/>/g,'&gt;')
esc(v) ==
    ReplaceAll(ReplaceAll(ReplaceAll(StringOf(Default(v, Str(<<>>))),
                                     "&", AmpEntity), "<", LtEntity), ">", GtEntity)

\* Characters of the strings esc is tried on.
EscChars == {"a", "&", "<", ">", ";"}

EscInputs ==
    {Undefined, Null} \cup { Str(s) : s \in StringsUpTo(EscChars, MaxLen) }

\* The data path has computed nothing yet.
Computes == calc = NoCalc

Computed(c) ==
    /\ calc' = c
    /\ UNCHANGED <<variant, config, processedReferences, reqs>>

EscApplied ==
    /\ Computes
    /\ \E v \in EscInputs : Computed([op |-> "esc", in |-> v, out |-> esc(v)])

\* ------------------------------------------------------------ name split
WhiteSpace == {" ", "\t"}

RECURSIVE TrimStart(_)
TrimStart(s) ==
    IF s # <<>> /\ Head(s) \in WhiteSpace THEN TrimStart(Tail(s)) ELSE s

RECURSIVE TrimEnd(_)
TrimEnd(s) ==
    IF s # <<>> /\ s[Len(s)] \in WhiteSpace THEN TrimEnd(SubSeq(s, 1, Len(s) - 1)) ELSE s

\* s.trim()
Trim(s) == TrimEnd(TrimStart(s))

\* s.split(sep): the pieces between the occurrences of the character sep.
RECURSIVE Split(_, _)
Split(s, sep) ==
    IF \A i \in 1..Len(s) : s[i] # sep THEN <<s>>
    ELSE LET i == CHOOSE k \in 1..Len(s) :
                      s[k] = sep /\ \A j \in 1..(k - 1) : s[j] # sep
         IN  <<SubSeq(s, 1, i - 1)>> \o Split(SubSeq(s, i + 1, Len(s)), sep)

\* parts.join(sep)
RECURSIVE Join(_, _)
Join(parts, sep) ==
    IF parts = <<>> THEN <<>>
    ELSE IF Len(parts) = 1 THEN parts[1]
    ELSE parts[1] \o <<sep>> \o Join(Tail(parts), sep)

CustomerName == <<"C", "u", "s", "t", "o", "m", "e", "r">>

\* s || d, for strings
OrChars(s, d) == IF s = <<>> THEN d ELSE s

\* Mutant: without further tokens the last name repeats the first token.
FetchAppName_ReusesFirst(fullName) ==
    LET nameParts == Split(Trim(StringOf(Or(fullName, Str(<<>>)))), " ")
    IN  [ firstName |-> OrChars(nameParts[1], CustomerName),
          lastName  |-> OrChars(Join(Tail(nameParts), " "),
                                OrChars(nameParts[1], CustomerName)) ]

\* The FetchApp order's names:
\*   nameParts = (fullName || '').trim().split(' ')
\*   firstName = nameParts[0] || 'Customer'
\*   lastName  = nameParts.slice(1).join(' ') || 'Customer'
FetchAppName(fullName) ==
    LET nameParts == Split(Trim(StringOf(Or(fullName, Str(<<>>)))), " ")
    IN  [ firstName |-> OrChars(nameParts[1], CustomerName),
          lastName  |-> OrChars(Join(Tail(nameParts), " "), CustomerName) ]

\* The Sender subscriber's names:
\*   [first_name, ...rest] = String(fullName || '').trim().split(' ')
\*   last_name = rest.join(' ') || ''
SenderName(fullName) ==
    LET nameParts == Split(Trim(StringOf(Or(fullName, Str(<<>>)))), " ")
    IN  [ firstName |-> nameParts[1],
          lastName  |-> OrChars(Join(Tail(nameParts), " "), <<>>) ]

NameChars == {"a", "b", " ", "\t"}

JaneDoe == <<"J", "a", "n", "e", " ", "D", "o", "e">>

Madonna == <<"M", "a", "d", "o", "n", "n", "a">>

NameInputs ==
    {Undefined, Str(JaneDoe), Str(Madonna)} \cup
    { Str(s) : s \in StringsUpTo(NameChars, MaxLen) }

NameSplit ==
    /\ Computes
    /\ \E v \in NameInputs :
         Computed([op |-> "split", in |-> v,
                   out |-> [fetchapp |-> FetchAppName(v), sender |-> SenderName(v)]])

\* --------------------------------------------------------------- amounts
\* The decimal number a string of digits writes.
RECURSIVE ParseNat(_)
ParseNat(s) ==
    IF s = <<>> THEN 0
    ELSE 10 * ParseNat(SubSeq(s, 1, Len(s) - 1)) +
         (CHOOSE d \in 0..9 : Digits[d + 1] = s[Len(s)])

\* Number(v), in halves: NaN for undefined and for a string that is not a
\* number; 0 for null and for the empty string.
NumberOf(v) ==
    CASE v.t = "number" -> [nan |-> FALSE, halves |-> v.n]
      [] v.t = "null" -> [nan |-> FALSE, halves |-> 0]
      [] v.t = "undefined" -> [nan |-> TRUE, halves |-> 0]
      [] v.t = "string" ->
           IF \A i \in 1..Len(v.s) : \E d \in 1..10 : Digits[d] = v.s[i]
             THEN [nan |-> FALSE, halves |-> 2 * ParseNat(v.s)]
             ELSE [nan |-> TRUE, halves |-> 0]

\* Math.round(x) of a non-negative x given in halves: halves go up.
MathRound(halves) == (halves + 1) \div 2

\* Mutant: the amount is divided by 100 first and then rounded to a whole
\* unit.
AmountNaira_WholeUnits(amount) ==
    LET x == NumberOf(amount)
        r == MathRound(IF x.nan THEN 0 ELSE x.halves)
    IN  [whole |-> (r + 50) \div 100, hundredths |-> 0]

\* amountNaira = Math.round(Number(amount) || 0) / 100
AmountNaira(amount) ==
    LET x == NumberOf(amount)
        r == MathRound(IF x.nan THEN 0 ELSE x.halves)
    IN  [whole |-> r \div 100, hundredths |-> r % 100]

\* Gateway amounts in minor units: small ones with their halves, and the
\* named ones.
AmountInputs ==
    {Undefined, Null, Str(<<"a">>), Str(<<"5", "0">>)} \cup
    { Num(h) : h \in 0..(2 * MaxMinor + 1) } \cup
    { Num(2 * m) : m \in {50, 99, 100, 150, 490000} } \cup
    { Num(2 * 149 + 1) }

AmountConverted ==
    /\ Computes
    /\ \E v \in AmountInputs :
         Computed([op |-> "amount", in |-> v, out |-> AmountNaira(v)])

\* Mutant: the checkout amount is sent to the gateway as it came.
MinorUnits_Unconverted(amount) == amount

\* amount: amount * 100 in the initialize body.  The product of a value
\* that is not a number is NaN, which JSON writes as null.
MinorUnits(amount) ==
    LET x == NumberOf(amount)
    IN  IF x.nan THEN Null ELSE Num(100 * x.halves)

\* Checkout amounts that pass !amount: small ones with their halves, the
\* course price, and strings.
CheckoutAmounts ==
    { Num(h) : h \in 1..(2 * MaxMajor + 1) } \cup
    {Num(2 * 4900), Str(<<"5", "0">>), Str(<<"a">>)}

\* A checkout amount goes to the gateway and comes back through
\* process-order or the webhook.
AmountRoundTrip ==
    /\ Computes
    /\ \E v \in CheckoutAmounts :
         Computed([op |-> "roundTrip", in |-> v, sent |-> MinorUnits(v),
                   out |-> AmountNaira(MinorUnits(v))])

\* ------------------------------------------------------------- signature
SignatureChecked ==
    /\ Computes
    /\ \E raw \in RawBodies, header \in SignatureHeaders :
         Computed([op |-> "signature", raw |-> raw, header |-> header,
                   out |-> SignatureMatches(raw, header)])

\* ------------------------------------------- the event and its chat alert
Direct == <<"d", "i", "r", "e", "c", "t">>

NGN == <<"N", "G", "N">>

\* Strings a caller or the gateway can send: a harmless one and one made
\* of the markup's own characters.
Plain == <<"a">>

Hostile == <<"<", "&", ">">>

\* new Date().toISOString()
IsoTime == <<"2", "0", "2", "5", "-", "0", "1", "-", "0", "1", "T", "0", "0", ":", "0", "0", "Z">>

\* handleSuccessfulPayment's parameter defaults.
HspParams(arg) ==
    [arg EXCEPT !.currency = Default(@, Str(NGN)),
                !.gclid = Default(@, Str(Direct)),
                !.ipAddress = Default(@, Str(<<"N", "/", "A">>)),
                !.country = Default(@, Str(<<"N", "G">>))]

\* The chat alert's text, line by line: the template's own text before and
\* after the one value the line interpolates.
Message(ev) ==
    LET amount == AmountChars(ev.amountNaira)
    IN  << [label |-> "<b>NEW CONVERSION</b>", value |-> <<>>, tail |-> ""],
           [label |-> "<b>Customer Details:</b>", value |-> <<>>, tail |-> ""],
           [label |-> "Full Name: ", value |-> esc(ev.fullName), tail |-> ""],
           [label |-> "Email: ", value |-> esc(ev.email), tail |-> ""],
           [label |-> "<b>Transaction Details:</b>", value |-> <<>>, tail |-> ""],
           [label |-> "Amount: ",
            value |-> esc(Str(StringOf(ev.currency) \o <<" ">> \o amount)), tail |-> ""],
           [label |-> "Reference: ", value |-> esc(ev.reference), tail |-> ""],
           [label |-> "Country: ", value |-> esc(ev.country), tail |-> ""],
           [label |-> "IP Address: ", value |-> esc(ev.ipAddress), tail |-> ""],
           [label |-> "<b>Google Ads Data:</b>", value |-> <<>>, tail |-> ""],
           [label |-> "GCLID: ", value |-> esc(ev.gclid), tail |-> ""],
           [label |-> "Conversion Time: ", value |-> esc(Str(IsoTime)), tail |-> ""],
           [label |-> "<b>For Google Ads Upload:</b>", value |-> <<>>, tail |-> ""],
           [label |-> "<pre>GCLID: ", value |-> esc(ev.gclid), tail |-> ""],
           [label |-> "Conversion Name: Purchase", value |-> <<>>, tail |-> ""],
           [label |-> "Conversion Time: ", value |-> esc(Str(IsoTime)), tail |-> ""],
           [label |-> "Conversion Value: ", value |-> esc(Str(amount)), tail |-> ""],
           [label |-> "Conversion Currency: ", value |-> esc(ev.currency), tail |-> "</pre>"] >>

\* What handleSuccessfulPayment is called with, and the alert it renders.
FanOut(arg) == [event |-> HspParams(arg), message |-> Message(HspParams(arg))]

\* The fields POST /api/process-order reads of its body.
OrderBodies ==
    [ reference : {Str(<<"r">>)},
      email     : {Str(Plain), Str(Hostile)},
      fullName  : {Str(JaneDoe), Str(Hostile)},
      gclid     : {Undefined, Null, Str(<<>>), Str(<<"g">>), Str(Hostile)},
      ipAddress : {Undefined, Str(Hostile)},
      country   : {Undefined, Str(Hostile)} ]

\* verify.data.data: the gateway's record of the transaction.
GatewayRecords ==
    [ amount   : {Num(2), Num(2 * 490000)},
      currency : {Undefined, Str(Hostile)},
      email    : {Str(Plain), Str(<<"c">>)},
      fullName : {Str(JaneDoe), Str(Madonna)} ]

\* POST /api/process-order: the argument of handleSuccessfulPayment.
ProcessOrderEvent(body, data) ==
    [ reference   |-> body.reference,
      email       |-> body.email,
      fullName    |-> body.fullName,
      amountNaira |-> AmountNaira(data.amount),
      currency    |-> Or(data.currency, Str(NGN)),
      gclid       |-> body.gclid,
      ipAddress   |-> body.ipAddress,
      country     |-> body.country ]

OrderEventBuilt ==
    /\ Computes
    /\ \E body \in OrderBodies, data \in GatewayRecords :
         Computed([op |-> "processOrder", in |-> body, data |-> data,
                   gclid |-> body.gclid,
                   out |-> FanOut(ProcessOrderEvent(body, data))])

\* event.data of a charge.success webhook, and the connection's address.
Payloads ==
    [ reference     : {Str(<<"r">>)},
      customerEmail : {Undefined, Str(Plain)},
      authEmail     : {Str(Hostile)},
      metaFullName  : {Undefined, Str(Hostile)},
      firstName     : {Undefined, Str(<<"J">>)},
      lastName      : {Undefined, Str(<<"D">>)},
      metaGclid     : {Undefined, Null, Str(<<>>), Str(<<"g">>)},
      amount        : {Undefined, Num(2)},
      currency      : {Undefined, Str(Hostile)},
      ipAddress     : {Undefined, Str(Hostile)},
      country       : {Undefined, Str(Hostile)},
      reqIp         : {Str(<<"1">>)} ]

\* POST /api/webhook/paystack: the argument of handleSuccessfulPayment.
WebhookEvent(data) ==
    [ reference   |-> data.reference,
      email       |-> Or(data.customerEmail, data.authEmail),
      fullName    |-> Or(Or(data.metaFullName,
                            Str(Trim(StringOf(Or(data.firstName, Str(<<>>))) \o <<" ">> \o
                                     StringOf(Or(data.lastName, Str(<<>>)))))),
                         Str(CustomerName)),
      amountNaira |-> AmountNaira(data.amount),
      currency    |-> Or(data.currency, Str(NGN)),
      gclid       |-> Or(data.metaGclid, Str(Direct)),
      ipAddress   |-> Or(data.ipAddress, data.reqIp),
      country     |-> Or(data.country, Str(<<"N", "G">>)) ]

WebhookEventBuilt ==
    /\ Computes
    /\ \E data \in Payloads :
         Computed([op |-> "webhook", in |-> data, gclid |-> data.metaGclid,
                   out |-> FanOut(WebhookEvent(data))])


DataNext ==
    \/ EscApplied
    \/ NameSplit
    \/ AmountConverted
    \/ AmountRoundTrip
    \/ SignatureChecked
    \/ OrderEventBuilt
    \/ WebhookEventBuilt

DataSpec == Init /\ [][DataNext]_vars

\* ------------------------------------- direct and read-only endpoints
\* The routes beside the orchestrator.  A request to one of them keeps the
\* reference of its body or path in ref.

\* Mutant: the notification endpoint consults the processed set first.
NotifyArrival_Guarded(q) ==
    IF q.ref \in processedReferences
      THEN Respond([q EXCEPT !.pc = "done"], 200, "Already processed")
      ELSE [Call(q, "telegram") EXCEPT !.pc = "notifying"]

\* POST /api/send-telegram-notification, up to the awaited Telegram call:
\* the body is destructured without validation and the message is posted.
NotifyArrival(q) == [Call(q, "telegram") EXCEPT !.pc = "notifying"]

NotifyReceive(i) ==
    /\ Arrives(i)
    /\ \E reference \in References :
         Step(i, [ q |-> NotifyArrival([reqs[i] EXCEPT !.kind = "notify",
                                                        !.ref = reference,
                                                        !.awaited = TRUE,
                                                        !.after = AnsweredNow]),
                   add |-> FALSE ])

\* POST /api/send-telegram-notification, from the call's completion on.
NotifyAnswered(q, ok) ==
    IF ok THEN Respond([q EXCEPT !.pc = "done"], 200, "Telegram notification sent")
    ELSE Respond([q EXCEPT !.pc = "done", !.failed = @ \cup {"telegram"}],
                 500, "Failed to send Telegram notification")

NotifyReturns(i) ==
    /\ reqs[i].pc = "notifying"
    /\ \E ok \in BOOLEAN :
         Step(i, [ q |-> NotifyAnswered(reqs[i], ok), add |-> FALSE ])

\* The fullName field of a create-fetchapp-order body.
OrderNames == {Undefined, Str(<<>>), Str(JaneDoe)}

\* fullName.trim() is a TypeError unless fullName is a string.
HasTrim(v) == v.t = "string"

\* POST /api/create-fetchapp-order, up to the awaited FetchApp call.
CreateOrderArrival(q, fullName) ==
    IF HasTrim(fullName)
      THEN [Call(q, "fetchapp") EXCEPT !.pc = "ordering"]
      ELSE Respond([q EXCEPT !.pc = "done"], 500, "Failed to create FetchApp order")

\* Only the FetchApp server registers the route.
CreateOrderReceive(i) ==
    /\ Arrives(i)
    /\ variant = "FetchApp"
    /\ \E reference \in References, fullName \in OrderNames :
         Step(i, [ q |-> CreateOrderArrival([reqs[i] EXCEPT !.kind = "createOrder",
                                                             !.ref = reference,
                                                             !.awaited = TRUE,
                                                             !.after = AnsweredNow,
                                                             !.invalid = ~HasTrim(fullName)],
                                            fullName),
                   add |-> FALSE ])

\* POST /api/create-fetchapp-order, from the call's completion on.
CreateOrderAnswered(q, ok) ==
    IF ok THEN Respond([q EXCEPT !.pc = "done"], 200, "FetchApp order created and email sent")
    ELSE Respond([q EXCEPT !.pc = "done", !.failed = @ \cup {"fetchapp"}],
                 500, "Failed to create FetchApp order")

CreateOrderReturns(i) ==
    /\ reqs[i].pc = "ordering"
    /\ \E ok \in BOOLEAN :
         Step(i, [ q |-> CreateOrderAnswered(reqs[i], ok), add |-> FALSE ])

\* GET /api/verify-payment/:reference, up to the awaited gateway call.
VerifyPaymentArrival(q) == [q EXCEPT !.pc = "checking", !.gateway = @ + 1]

VerifyPaymentReceive(i) ==
    /\ Arrives(i)
    /\ \E reference \in Refs :
         Step(i, [ q |-> VerifyPaymentArrival([reqs[i] EXCEPT !.kind = "verifyPayment",
                                                               !.ref = reference,
                                                               !.awaited = TRUE,
                                                               !.after = AnsweredNow]),
                   add |-> FALSE ])

\* Mutant: a payment found successful is recorded as processed.
VerifyPaymentAnswered_Records(q, v) ==
    CASE v = "error" ->
           [ q |-> Respond([q EXCEPT !.pc = "done"], 500,
                           "Server error during payment verification"),
             add |-> FALSE ]
      [] VerifySuccessful(v) ->
           [ q |-> Respond([q EXCEPT !.pc = "done"], 200, "OK"), add |-> TRUE ]
      [] OTHER ->
           [ q |-> Respond([q EXCEPT !.pc = "done"], 200, "Payment verification failed"),
             add |-> FALSE ]

\* GET /api/verify-payment/:reference, from the gateway call's completion
\* on: the gateway's answer is relayed and nothing else is done.
VerifyPaymentAnswered(q, v) ==
    CASE v = "error" ->
           [ q |-> Respond([q EXCEPT !.pc = "done"], 500,
                           "Server error during payment verification"),
             add |-> FALSE ]
      [] VerifySuccessful(v) ->
           [ q |-> Respond([q EXCEPT !.pc = "done"], 200, "OK"), add |-> FALSE ]
      [] OTHER ->
           [ q |-> Respond([q EXCEPT !.pc = "done"], 200, "Payment verification failed"),
             add |-> FALSE ]

VerifyPaymentReturns(i) ==
    /\ reqs[i].pc = "checking"
    /\ \E v \in VerifyOutcomes :
         Step(i, VerifyPaymentAnswered([reqs[i] EXCEPT !.verified = v], v))

\* GET /api/health: the configuration flags are reported at once.
Health(q) == Respond([q EXCEPT !.pc = "done"], 200, "OK")

HealthReceive(i) ==
    /\ Arrives(i)
    /\ Step(i, [ q |-> Health([reqs[i] EXCEPT !.kind = "health", !.awaited = TRUE,
                                              !.after = AnsweredNow]),
                 add |-> FALSE ])

\* The checkout and process-order routes together with the direct and
\* read-only ones.
EndpointNext ==
    \E i \in ReqIds :
        \/ InitializeReceive(i)
        \/ InitializeReturns(i)
        \/ ProcessOrderReceive(i)
        \/ VerifyReturns(i)
        \/ TelegramReturns(i)
        \/ SecondReturns(i)
        \/ NotifyReceive(i)
        \/ NotifyReturns(i)
        \/ CreateOrderReceive(i)
        \/ CreateOrderReturns(i)
        \/ VerifyPaymentReceive(i)
        \/ VerifyPaymentReturns(i)
        \/ HealthReceive(i)

EndpointSpec == Init /\ [][EndpointNext]_vars


\* ------------------------------------------------------------ properties
\* The requests that arrived for reference r.
RequestsFor(r) == { i \in ReqIds : reqs[i].kind # "none" /\ reqs[i].ref = r }

RECURSIVE CallsUpTo(_, _, _)
CallsUpTo(n, r, c) ==
    IF n = 0 THEN 0
    ELSE CallsUpTo(n - 1, r, c) + (IF n \in RequestsFor(r) THEN reqs[n].calls[c] ELSE 0)

\* How many calls collaborator c has received for reference r.
Calls(r, c) == CallsUpTo(MaxReq, r, c)

\* The collaborators the running server is configured to call in a fan-out.
Configured ==
    {"telegram"} \cup
    ( CASE variant = "MailerSend" -> IF config.mailerSend THEN {"email"} ELSE {}
        [] variant = "SMTP" -> {"email"}
        [] variant = "FetchApp" -> {"fetchapp"}
        [] variant = "Sender" -> (IF config.sender THEN {"sender"} ELSE {}) \cup
                                 (IF config.useFetchApp THEN {"fetchapp"} ELSE {}) )

\* Request j is a process-order call for r made after process-order call i
\* was answered, both verified as successful, no collaborator call failing,
\* and no other request for r.
TwiceInSequence(r, i, j) ==
    /\ i # j
    /\ RequestsFor(r) = {i, j}
    /\ reqs[i].kind = "processOrder" /\ reqs[j].kind = "processOrder"
    /\ i \in reqs[j].after
    /\ reqs[i].verified = "success" /\ reqs[j].verified = "success"
    /\ reqs[i].failed = {} /\ reqs[j].failed = {}
    /\ Answered(reqs[j])

\* C1: two process-order calls in sequence for one reference, verified both
\* times and with every collaborator call succeeding: the first answers
\* 'Processed', the second 'Already processed', and every configured
\* collaborator has been called exactly once for the reference.
C1_TwiceInSequenceOnce ==
    \A r \in Refs : \A i, j \in ReqIds :
        TwiceInSequence(r, i, j) =>
            /\ reqs[i].resp = 200 /\ reqs[i].msg = "Processed"
            /\ reqs[j].resp = 200 /\ reqs[j].msg = "Already processed"
            /\ \A c \in Collabs : Calls(r, c) = (IF c \in Configured THEN 1 ELSE 0)

C1_Witness ==
    \E r \in Refs : \E i, j \in ReqIds :
        /\ TwiceInSequence(r, i, j)
        /\ reqs[j].msg = "Already processed"
        /\ Calls(r, "telegram") = 1
        /\ Cardinality(Configured) = 2

\* Request j evaluated has(r) while request i, the only other request for r,
\* was between its own has(r) and the end of its invocation.
Raced(r, i, j) ==
    /\ i # j
    /\ RequestsFor(r) = {i, j}
    /\ reqs[j].checked
    /\ i \in reqs[j].overlap

\* C2: a request that evaluates has(r) while another request for r is past
\* its has(r) and has not reached add(r) is admitted too, so the chat alert
\* goes out twice for r; when both invocations end without a failed call,
\* every configured collaborator has been called twice for r.
C2_RaceAdmitsSecond ==
    \A r \in Refs : \A i, j \in ReqIds :
        Raced(r, i, j) =>
            /\ reqs[j].admitted
            /\ Calls(r, "telegram") = 2
            /\ ( ( /\ reqs[i].outcome = "committed" /\ reqs[j].outcome = "committed"
                   /\ reqs[i].failed = {} /\ reqs[j].failed = {} )
                 => \A c \in Configured : Calls(r, c) = 2 )

C2_Witness ==
    \E r \in Refs : \E i, j \in ReqIds :
        /\ Raced(r, i, j)
        /\ reqs[i].outcome = "committed" /\ reqs[j].outcome = "committed"
        /\ Calls(r, "telegram") = 2
        /\ Cardinality(Configured) = 2
        /\ \A c \in Configured : Calls(r, c) = 2

\* The invocation of request i was admitted and has ended.
AdmittedEnded(i) == reqs[i].admitted /\ reqs[i].outcome # "none"

\* C3: in an admitted invocation in which a collaborator call failed, every
\* configured collaborator has nevertheless been called.
C3_FailureIsolation ==
    \A i \in ReqIds :
        (AdmittedEnded(i) /\ reqs[i].failed # {}) =>
            \A c \in Configured : reqs[i].calls[c] >= 1

\* C4: a process-order request whose gateway verification succeeded is
\* answered 200, whether or not a collaborator call failed.
C4_FanOutFailureNeverFails ==
    \A i \in ReqIds :
        ( /\ reqs[i].kind = "processOrder"
          /\ reqs[i].verified = "success"
          /\ Answered(reqs[i]) )
        => reqs[i].resp = 200

\* C5: when an admitted invocation has ended, its reference is in the
\* processed set, whether or not every collaborator succeeded.
C5_CommitOnAttempt ==
    \A i \in ReqIds :
        AdmittedEnded(i) => reqs[i].ref \in processedReferences

\* Request j evaluated has(r) after earlier invocations for r had ended, all
\* of them by a throw, and while none was in flight.
RetriesAfterThrow(r, j) ==
    /\ j \in RequestsFor(r)
    /\ reqs[j].checked
    /\ reqs[j].prior # {}
    /\ \A k \in reqs[j].prior : reqs[k].outcome = "threw"

\* C6: an invocation that ends by a throw leaves its reference out of the
\* processed set (it is there only if some invocation committed it), and a
\* later request for the same reference that reaches has() is admitted and
\* runs the fan-out again.
C6_ThrowLeavesRetryable ==
    \A r \in Refs :
        /\ ( ( /\ \E i \in RequestsFor(r) : reqs[i].outcome = "threw"
               /\ \A k \in RequestsFor(r) : reqs[k].outcome # "committed" )
             => r \notin processedReferences )
        /\ \A j \in ReqIds :
             RetriesAfterThrow(r, j) =>
                 /\ reqs[j].admitted
                 /\ reqs[j].outcome # "already"
                 /\ reqs[j].calls["telegram"] = 1
                 /\ Calls(r, "telegram") >= 2

C6_Witness ==
    \E r \in Refs : \E j \in ReqIds :
        /\ RetriesAfterThrow(r, j)
        /\ reqs[j].kind = "processOrder"
        /\ reqs[j].msg = "Processed"
        /\ r \in processedReferences

\* C7: a webhook that passed the signature check has been answered 200,
\* whatever its event type and however the fan-out it started went.
C7_WebhookAnswers200 ==
    \A i \in ReqIds :
        (reqs[i].kind = "webhook" /\ reqs[i].sigOk) => reqs[i].resp = 200

C7_Witness ==
    \E i, j \in ReqIds :
        /\ reqs[i].kind = "webhook" /\ reqs[i].sigOk
        /\ reqs[i].outcome = "threw" /\ reqs[i].resp = 200
        /\ reqs[j].kind = "webhook" /\ reqs[j].sigOk
        /\ reqs[j].event = "charge.failed" /\ reqs[j].resp = 200

\* C8: while the fan-out a webhook started is still waiting for a
\* collaborator call, the webhook has already been answered 200.
C8_AckDoesNotWait ==
    \A i \in ReqIds :
        (reqs[i].kind = "webhook" /\ InFlight(reqs[i])) => reqs[i].resp = 200

C8_Witness ==
    \E i \in ReqIds :
        /\ reqs[i].kind = "webhook" /\ reqs[i].event = "charge.success"
        /\ reqs[i].pc = "second" /\ reqs[i].resp = 200

\* C9: a webhook whose header differs from the HMAC the handler computes
\* (a missing header included) is answered 400 and nothing else happens:
\* handleSuccessfulPayment is not entered, no collaborator is called and the
\* processed set stays as it was.
C9_BadSignatureRejected ==
    /\ [](\A i \in ReqIds :
            (reqs[i].kind = "webhook" /\ ~reqs[i].hmacEq) =>
                /\ reqs[i].resp = 400
                /\ reqs[i].pc = "done"
                /\ ~reqs[i].checked
                /\ reqs[i].outcome = "none"
                /\ reqs[i].calls = NoCalls)
    /\ [][\A i \in ReqIds :
            (reqs[i].kind = "none" /\ reqs'[i].kind = "webhook" /\ ~reqs'[i].hmacEq) =>
                /\ processedReferences' = processedReferences
                /\ \A k \in ReqIds \ {i} : reqs'[k] = reqs[k]]_vars

C9_Witness ==
    \E i, j \in ReqIds :
        /\ reqs[i].kind = "webhook" /\ ~reqs[i].hmacEq /\ reqs[i].resp = 400
        /\ i \in reqs[j].after
        /\ reqs[j].outcome = "committed"

\* The gateway answered, and did not report the transaction as successful.
NotSuccessful(q) == q.verified \in {"statusFalse", "abandoned"}

\* C10: a process-order request whose verify call returns without reporting
\* success is answered 400 'Verification failed'; handleSuccessfulPayment
\* is not entered, no collaborator is called and the processed set stays as
\* it was.
C10_VerificationFailed ==
    /\ [](\A i \in ReqIds :
            (reqs[i].kind = "processOrder" /\ NotSuccessful(reqs[i])) =>
                /\ reqs[i].resp = 400
                /\ reqs[i].msg = "Verification failed"
                /\ reqs[i].pc = "done"
                /\ ~reqs[i].checked
                /\ reqs[i].outcome = "none"
                /\ reqs[i].calls = NoCalls)
    /\ [][\A i \in ReqIds :
            (reqs[i].pc = "verifying" /\ NotSuccessful(reqs'[i])) =>
                /\ processedReferences' = processedReferences
                /\ \A k \in ReqIds \ {i} : reqs'[k] = reqs[k]]_vars

C10_Witness ==
    \E i, j \in ReqIds :
        /\ reqs[i].kind = "processOrder" /\ reqs[i].verified = "abandoned"
        /\ reqs[i].resp = 400
        /\ reqs[j].kind = "processOrder" /\ reqs[j].verified = "statusFalse"
        /\ reqs[j].resp = 400

\* C11: an initialize-payment or process-order request that misses a
\* required field is answered 400, makes no call to the gateway nor to any
\* collaborator, never reaches handleSuccessfulPayment, and its step leaves
\* the processed set and every other request as they were.
C11_ValidationNoSideEffects ==
    /\ [](\A i \in ReqIds :
            reqs[i].invalid =>
                /\ reqs[i].kind \in {"initialize", "processOrder"}
                /\ reqs[i].resp = 400
                /\ reqs[i].pc = "done"
                /\ reqs[i].gateway = 0
                /\ reqs[i].calls = NoCalls
                /\ ~reqs[i].checked
                /\ reqs[i].outcome = "none")
    /\ [][\A i \in ReqIds :
            (reqs[i].kind = "none" /\ reqs'[i].invalid) =>
                /\ processedReferences' = processedReferences
                /\ \A k \in ReqIds \ {i} : reqs'[k] = reqs[k]]_vars

C11_Witness ==
    \E i, j \in ReqIds :
        /\ reqs[i].kind = "initialize" /\ reqs[i].invalid /\ reqs[i].resp = 400
        /\ reqs[j].kind = "processOrder" /\ reqs[j].invalid /\ reqs[j].resp = 400
        /\ reqs[j].ref \in Refs

\* C12: in a process-order request the processed set is consulted, a
\* collaborator is called and handleSuccessfulPayment ends only after the
\* request's own gateway verify call has returned success, and a step of a
\* process-order request that changes the processed set is a step of a
\* request whose verification succeeded.
C12_VerifyPrecedesFanOut ==
    /\ [](\A i \in ReqIds :
            (/\ reqs[i].kind = "processOrder"
             /\ \/ reqs[i].checked
                \/ reqs[i].calls # NoCalls
                \/ reqs[i].outcome # "none"
                \/ reqs[i].pc \in {"telegram", "second"})
              => (reqs[i].verified = "success" /\ reqs[i].gateway = 1))
    /\ [][\A i \in ReqIds :
            (/\ reqs'[i].kind = "processOrder"
             /\ reqs'[i] # reqs[i]
             /\ processedReferences' # processedReferences)
              => reqs[i].verified = "success"]_vars

C12_Witness ==
    \E i \in ReqIds :
        /\ reqs[i].kind = "processOrder"
        /\ reqs[i].verified = "success"
        /\ reqs[i].checked
        /\ reqs[i].calls # NoCalls
        /\ reqs[i].outcome = "committed"
        /\ reqs[i].ref \in processedReferences

\* C14 (as stated): a process-order request that arrives, with all its
\* fields, for a reference already in the processed set reports already-processed and makes no
\* outbound call of any kind, not even one to the gateway.
C14_DuplicateMakesNoCall ==
    [][\A i \in ReqIds :
        (/\ reqs[i].kind = "none"
         /\ reqs'[i].kind = "processOrder"
         /\ ~reqs'[i].invalid
         /\ reqs'[i].ref \in processedReferences)
          => /\ reqs'[i].msg = "Already processed"
             /\ reqs'[i].calls = NoCalls
             /\ reqs'[i].gateway = 0]_vars

\* C14 (amended): a process-order request for a reference that is in the
\* processed set, once its gateway verify call has returned success, reports
\* already-processed in that same step, calls no collaborator and leaves the
\* set as it was; the one outbound call of the request is that verify call.
C14_DuplicateOnlyVerifies ==
    /\ [](\A i \in ReqIds :
            (reqs[i].kind = "processOrder" /\ reqs[i].outcome = "already")
              => /\ reqs[i].resp = 200
                 /\ reqs[i].msg = "Already processed"
                 /\ reqs[i].calls = NoCalls
                 /\ reqs[i].gateway = 1
                 /\ reqs[i].pc = "done")
    /\ [][\A i \in ReqIds :
            (/\ reqs[i].kind = "processOrder"
             /\ reqs[i].pc = "verifying"
             /\ reqs[i].ref \in processedReferences
             /\ reqs'[i].verified = "success")
              => /\ reqs'[i].outcome = "already"
                 /\ reqs'[i].msg = "Already processed"
                 /\ reqs'[i].calls = NoCalls
                 /\ reqs'[i].gateway = 1
                 /\ processedReferences' = processedReferences]_vars

C14_Witness ==
    \E i \in ReqIds :
        /\ reqs[i].kind = "processOrder"
        /\ reqs[i].outcome = "already"
        /\ reqs[i].prior # {}
        /\ reqs[i].ref \in processedReferences
        /\ reqs[i].gateway = 1

\* C20: a collaborator whose configuration is absent is skipped: an admitted
\* invocation in which no call to a configured collaborator failed never
\* called an unconfigured one, did not throw, and committed its reference.
C20_AbsentConfigSkipped ==
    \A i \in ReqIds :
        (AdmittedEnded(i) /\ reqs[i].failed \cap Configured = {})
          => /\ \A c \in Collabs \ Configured : reqs[i].calls[c] = 0
             /\ reqs[i].outcome = "committed"
             /\ reqs[i].ref \in processedReferences

\* In out, the '&' at position i starts one of the three entities.
StartsEntity(out, i) ==
    \E e \in {AmpEntity, LtEntity, GtEntity} :
        /\ i + Len(e) - 1 <= Len(out)
        /\ SubSeq(out, i, i + Len(e) - 1) = e

\* No '<', no '>', and every '&' starts an entity.
Safe(out) ==
    \A i \in 1..Len(out) :
        /\ out[i] \notin {"<", ">"}
        /\ out[i] = "&" => StartsEntity(out, i)

\* C13: the payer identity and the amount that process-order hands to the
\* fan-out are those of the gateway's verification record, whatever e-mail
\* and name the caller sent with the reference.
C13_IdentityFromGateway ==
    calc.op = "processOrder" =>
        /\ calc.out.event.amountNaira = AmountNaira(calc.data.amount)
        /\ calc.out.event.email = calc.data.email
        /\ calc.out.event.fullName = calc.data.fullName

\* C15: a webhook is accepted exactly when its signature header is the HMAC
\* of the body bytes as received, whatever their layout.
C15_SignatureOverExactBytes ==
    calc.op = "signature" =>
        (calc.out <=> (calc.header.present /\ calc.header.digest = Hmac(calc.raw)))

\* C16 (as stated): the amount used downstream is the gateway's minor-unit
\* amount divided by 100 and rounded to the nearest whole unit, so it is
\* always whole (490000 gives 4900, 1 gives 0).
C16_AmountRoundedToWhole ==
    (calc.op = "amount" /\ calc.in.t = "number") =>
        /\ calc.out.hundredths = 0
        /\ 200 * calc.out.whole <= calc.in.n + 100
        /\ calc.in.n <= 200 * calc.out.whole + 100
        /\ calc.in = Num(2 * 490000) => calc.out.whole = 4900
        /\ calc.in = Num(2 * 1) => calc.out.whole = 0

\* C16 (amended): the amount used downstream is the gateway's minor-unit
\* amount rounded to the nearest whole minor unit (halves up) and divided by
\* 100, kept to the hundredth: 490000 gives 4900 and 1 gives 0.01.  A
\* missing or non-numeric amount gives 0.
C16_AmountInHundredths ==
    calc.op = "amount" =>
        LET minor == 100 * calc.out.whole + calc.out.hundredths
        IN  /\ calc.out.hundredths \in 0..99
            /\ calc.in.t = "number" => 2 * minor \in {calc.in.n, calc.in.n + 1}
            /\ calc.in \in {Undefined, Null, Str(<<"a">>)} => minor = 0
            /\ calc.in = Str(<<"5", "0">>) => minor = 50
            /\ calc.in = Num(2 * 490000) => calc.out = [whole |-> 4900, hundredths |-> 0]
            /\ calc.in = Num(2 * 1) => calc.out = [whole |-> 0, hundredths |-> 1]

C16_Witness ==
    /\ calc.op = "amount"
    /\ calc.in = Num(2 * 1)
    /\ calc.out = [whole |-> 0, hundredths |-> 1]

\* The trimmed name a split was computed from.
SplitName == Trim(StringOf(Or(calc.in, Str(<<>>))))

\* The first position of SplitName that holds one of the characters cs.
FirstOf(cs) ==
    CHOOSE k \in 1..Len(SplitName) :
        SplitName[k] \in cs /\ \A j \in 1..(k - 1) : SplitName[j] \notin cs

\* What follows position k of SplitName.
AfterPos(k) == SubSeq(SplitName, k + 1, Len(SplitName))

C18_GclidDefaultsToDirect ==
    (calc.op \in {"processOrder", "webhook"} /\ Falsy(calc.gclid)) =>
        /\ calc.out.event.gclid = Str(Direct)
        /\ \E k \in 1..Len(calc.out.message) :
             /\ calc.out.message[k].label = "GCLID: "
             /\ calc.out.message[k].value = Direct

\* C19: esc(s) has no '<' and no '>', and each of its '&' starts one of
\* &amp; &lt; &gt;; every value interpolated into the chat alert has gone
\* through esc, so the alert's markup is the template's own.
C19_EscapedMessage ==
    /\ calc.op = "esc" => Safe(calc.out)
    /\ calc.op \in {"processOrder", "webhook"} =>
         \A k \in 1..Len(calc.out.message) : Safe(calc.out.message[k].value)

C19_Witness ==
    /\ calc.op = "processOrder"
    /\ calc.in.fullName = Str(Hostile)
    /\ \E k \in 1..Len(calc.out.message) :
         /\ calc.out.message[k].label = "Full Name: "
         /\ calc.out.message[k].value = LtEntity \o AmpEntity \o GtEntity

\* C21: on a Sender server without SENDER_API_KEY or SENDER_GROUP_ID the
\* list subscription is never called and never fails an invocation: an
\* admitted invocation in which no call failed has committed its reference
\* and, awaited by process-order, is answered 'Processed'.
C21_SenderSkippedWithoutCredentials ==
    (variant = "Sender" /\ ~config.sender) =>
        \A i \in ReqIds :
            /\ reqs[i].calls["sender"] = 0
            /\ "sender" \notin reqs[i].failed
            /\ reqs[i].pc # "second"
            /\ (AdmittedEnded(i) /\ reqs[i].failed = {}) =>
                 /\ reqs[i].outcome = "committed"
                 /\ reqs[i].ref \in processedReferences
                 /\ reqs[i].kind = "processOrder" =>
                      (reqs[i].resp = 200 /\ reqs[i].msg = "Processed")

C21_Witness ==
    /\ variant = "Sender" /\ ~config.sender
    /\ \E i \in ReqIds :
         /\ reqs[i].kind = "processOrder"
         /\ reqs[i].outcome = "committed"
         /\ reqs[i].msg = "Processed"
         /\ reqs[i].calls["telegram"] = 1
         /\ reqs[i].calls["sender"] = 0

\* C22: a reference is in the processed set only if the chat alert has been
\* called for it, and the set gains a reference only by the step that ends
\* an invocation of handleSuccessfulPayment for that reference whose chat
\* alert had been called before.
C22_AddedAfterFanOut ==
    /\ [](\A r \in processedReferences :
            /\ r \in Refs
            /\ Calls(r, "telegram") >= 1
            /\ \E i \in RequestsFor(r) : reqs[i].outcome = "committed")
    /\ [][\A r \in processedReferences' \ processedReferences :
            \E i \in ReqIds :
                /\ reqs[i].ref = r
                /\ reqs[i].admitted
                /\ reqs[i].outcome = "none"
                /\ reqs[i].calls["telegram"] = 1
                /\ reqs'[i].outcome = "committed"]_vars

C22_Witness ==
    \E r \in processedReferences : \E i \in RequestsFor(r) :
        /\ reqs[i].outcome = "committed"
        /\ reqs[i].calls["telegram"] = 1

\* C23: the processed set only grows: no step removes a reference from it.
C23_SetOnlyGrows ==
    [][processedReferences \subseteq processedReferences']_vars

C23_Witness ==
    \E i, j \in ReqIds :
        /\ i # j
        /\ reqs[i].ref = reqs[j].ref
        /\ reqs[i].outcome = "committed"
        /\ reqs[j].outcome = "threw"
        /\ i \in reqs[j].overlap
        /\ reqs[j].ref \in processedReferences

\* C24: a process-order request that passed validation and has ended is in
\* exactly one of three terminal states: verification failed and reported
\* to the caller, already processed, or committed with its reference in
\* the processed set.
C24_ThreeTerminalStates ==
    \A i \in ReqIds :
        (reqs[i].kind = "processOrder" /\ ~reqs[i].invalid /\ reqs[i].pc = "done") =>
            LET failedVerification ==
                    /\ reqs[i].verified \in {"error", "statusFalse", "abandoned"}
                    /\ reqs[i].resp \in {400, 500}
                alreadyProcessed == reqs[i].outcome = "already"
                committed ==
                    /\ reqs[i].outcome = "committed"
                    /\ reqs[i].ref \in processedReferences
            IN  /\ failedVerification \/ alreadyProcessed \/ committed
                /\ ~(failedVerification /\ alreadyProcessed)
                /\ ~(failedVerification /\ committed)
                /\ ~(alreadyProcessed /\ committed)

\* C25: a webhook never calls the gateway: its invocation of
\* handleSuccessfulPayment starts in the step that checks the signature,
\* with no verification in between.
C25_WebhookNeverVerifies ==
    \A i \in ReqIds :
        reqs[i].kind = "webhook" =>
            /\ reqs[i].gateway = 0
            /\ reqs[i].verified = ""
            /\ reqs[i].pc # "verifying"
            /\ reqs[i].checked => (reqs[i].sigOk /\ reqs[i].event = "charge.success")

C25_Witness ==
    \E i \in ReqIds :
        /\ reqs[i].kind = "webhook"
        /\ reqs[i].sigOk
        /\ reqs[i].outcome = "committed"
        /\ reqs[i].calls["telegram"] = 1
        /\ reqs[i].gateway = 0

\* C26: a process-order request whose gateway verify call throws is
\* answered 500; no collaborator is called, handleSuccessfulPayment is not
\* entered, and the step leaves the processed set and every other request
\* as they were, so that later requests are served as usual.
C26_VerifyErrorAnswers500 ==
    /\ [](\A i \in ReqIds :
            (reqs[i].kind = "processOrder" /\ reqs[i].verified = "error") =>
                /\ reqs[i].resp = 500
                /\ reqs[i].msg = "Server error"
                /\ reqs[i].pc = "done"
                /\ ~reqs[i].checked
                /\ reqs[i].outcome = "none"
                /\ reqs[i].calls = NoCalls)
    /\ [][\A i \in ReqIds :
            (reqs[i].pc = "verifying" /\ reqs'[i].verified = "error") =>
                /\ processedReferences' = processedReferences
                /\ \A k \in ReqIds \ {i} : reqs'[k] = reqs[k]]_vars

C26_Witness ==
    \E i, j \in ReqIds :
        /\ reqs[i].kind = "processOrder" /\ reqs[i].verified = "error"
        /\ reqs[i].resp = 500
        /\ i \in reqs[j].after
        /\ reqs[j].kind = "processOrder" /\ reqs[j].ref = reqs[i].ref
        /\ reqs[j].msg = "Processed"

\* The requests for r that handleSuccessfulPayment admitted.
AdmittedFor(r) == { i \in RequestsFor(r) : reqs[i].admitted }

\* C27: an invocation calls each collaborator at most once, only once it is
\* admitted; calls for a reference never outnumber the admitted requests
\* for it; and an invocation in which a call has failed, or which has
\* ended, makes no further call.
C27_NoAutomaticRetry ==
    /\ [](/\ \A i \in ReqIds : \A c \in Collabs :
               /\ reqs[i].calls[c] <= 1
               /\ reqs[i].calls[c] = 1 => reqs[i].admitted
          /\ \A r \in Refs : \A c \in Collabs :
               Calls(r, c) <= Cardinality(AdmittedFor(r)))
    /\ [][\A i \in ReqIds :
            (reqs[i].failed # {} \/ reqs[i].outcome # "none") =>
                reqs'[i].calls = reqs[i].calls]_vars

C27_Witness ==
    \E i, j \in ReqIds :
        /\ i # j /\ reqs[i].ref = reqs[j].ref
        /\ reqs[i].outcome = "threw" /\ reqs[i].failed = {SecondCollab}
        /\ reqs[i].calls["telegram"] = 1
        /\ i \in reqs[j].prior
        /\ reqs[j].outcome = "committed"
        /\ Calls(reqs[i].ref, "telegram") = 2

\* Request i is the only request for its reference.
Alone(i) ==
    /\ reqs[i].ref \in Refs
    /\ \A k \in ReqIds \ {i} : reqs[k].ref # reqs[i].ref

\* C28: a request that is alone with its reference is never turned away as a
\* duplicate, calls no collaborator twice, finds its reference in the set
\* exactly when its own invocation committed it, and, when no call fails,
\* ends committed with every configured collaborator called once, whatever
\* requests for other references run beside it; a step adds to the set
\* only the reference of the request that takes it.
C28_DistinctReferencesIndependent ==
    /\ [](\A i \in ReqIds :
            Alone(i) =>
                /\ reqs[i].checked => (reqs[i].admitted /\ reqs[i].outcome # "already")
                /\ \A c \in Collabs : reqs[i].calls[c] <= 1
                /\ reqs[i].ref \in processedReferences <=> reqs[i].outcome = "committed"
                /\ (AdmittedEnded(i) /\ reqs[i].failed = {}) =>
                     /\ reqs[i].outcome = "committed"
                     /\ \A c \in Collabs :
                          reqs[i].calls[c] = (IF c \in Configured THEN 1 ELSE 0))
    /\ [][\A r \in processedReferences' \ processedReferences :
            \E i \in ReqIds : reqs'[i] # reqs[i] /\ reqs'[i].ref = r]_vars

C28_Witness ==
    \E i, j \in ReqIds :
        /\ i < j
        /\ reqs[i].ref # reqs[j].ref
        /\ reqs[i].kind = "processOrder" /\ reqs[j].kind = "processOrder"
        /\ i \notin reqs[j].after
        /\ reqs[i].outcome = "committed" /\ reqs[j].outcome = "committed"
        /\ processedReferences = {reqs[i].ref, reqs[j].ref}
        /\ Calls(reqs[i].ref, "telegram") = 1 /\ Calls(reqs[j].ref, "telegram") = 1

\* Request j reached has(r) after request i, which came in by the other
\* entry point, had committed r.
AfterOtherEntryPoint(i, j) ==
    /\ i # j
    /\ reqs[i].ref = reqs[j].ref
    /\ {reqs[i].kind, reqs[j].kind} = {"processOrder", "webhook"}
    /\ reqs[i].outcome = "committed"
    /\ reqs[j].checked
    /\ i \in reqs[j].prior

\* C30: once an invocation started by one entry point has committed r, an
\* invocation for r started by the other entry point is a duplicate: it
\* calls no collaborator, and process-order answers 'Already processed'.
C30_EntryPointsShareGuard ==
    \A i, j \in ReqIds :
        AfterOtherEntryPoint(i, j) =>
            /\ reqs[j].outcome = "already"
            /\ reqs[j].calls = NoCalls
            /\ reqs[j].resp = 200
            /\ reqs[j].kind = "processOrder" => reqs[j].msg = "Already processed"

C30_Witness ==
    \E i, j \in ReqIds :
        /\ AfterOtherEntryPoint(i, j)
        /\ reqs[i].kind = "webhook"
        /\ reqs[j].msg = "Already processed"

\* Request j reached has() in a process in which no other request for its
\* reference had reached it, after an earlier process had committed the
\* reference.
FirstAfterRestart(j) ==
    /\ ~reqs[j].gone
    /\ reqs[j].checked
    /\ \A k \in reqs[j].prior \cup reqs[j].overlap : reqs[k].gone
    /\ \E k \in reqs[j].prior : reqs[k].outcome = "committed"

\* C29: a restart leaves the processed set empty, and the first request
\* that reaches has() for a reference committed before the restart is
\* admitted: the chat alert goes out again and, when no call fails, the
\* invocation ends with every configured collaborator called once more and
\* the reference committed anew.
C29_RestartForgets ==
    /\ [](\A j \in ReqIds :
            FirstAfterRestart(j) =>
                /\ reqs[j].admitted
                /\ reqs[j].outcome # "already"
                /\ reqs[j].calls["telegram"] = 1
                /\ (reqs[j].outcome \in {"committed", "threw"} /\ reqs[j].failed = {}) =>
                     /\ reqs[j].outcome = "committed"
                     /\ reqs[j].ref \in processedReferences
                     /\ \A c \in Collabs :
                          reqs[j].calls[c] = (IF c \in Configured THEN 1 ELSE 0))
    /\ [][(\E i \in ReqIds : ~reqs[i].gone /\ reqs'[i].gone) =>
            processedReferences' = {}]_vars

C29_Witness ==
    \E j \in ReqIds :
        /\ FirstAfterRestart(j)
        /\ reqs[j].kind = "processOrder"
        /\ reqs[j].msg = "Processed"
        /\ Calls(reqs[j].ref, "telegram") = 2
        /\ Cardinality(Configured) = 2
        /\ \A c \in Configured : Calls(reqs[j].ref, c) = 2

\* C31: in the MailerSend, FetchApp and SMTP variants a reference is in the
\* processed set only if one invocation for it had the chat alert and the
\* e-mail or fulfillment call both made and both returned without error;
\* a step in which a collaborator call fails leaves the set unchanged.
C31_CommittedOnlyAfterFullSuccess ==
    /\ [](variant # "Sender" =>
            /\ \A r \in processedReferences :
                 \E i \in RequestsFor(r) :
                     /\ reqs[i].outcome = "committed"
                     /\ reqs[i].failed = {}
                     /\ reqs[i].calls["telegram"] = 1
                     /\ reqs[i].calls[SecondCollab] = 1
            /\ \A i \in ReqIds :
                 reqs[i].failed # {} => reqs[i].outcome = "threw")
    /\ [][variant # "Sender" =>
            \A i \in ReqIds :
                reqs'[i].failed # reqs[i].failed =>
                    processedReferences' = processedReferences]_vars

C31_Witness ==
    \E i, j \in ReqIds :
        /\ variant # "Sender"
        /\ reqs[i].ref = reqs[j].ref
        /\ reqs[i].failed = {SecondCollab}
        /\ reqs[i].calls[SecondCollab] = 1
        /\ reqs[j].outcome = "committed"
        /\ reqs[j].ref \in processedReferences

\* C32: when the chat alert of an invocation for r succeeded and the e-mail
\* or fulfillment step after it failed, a later request for r that reaches
\* has() after thrown invocations only is admitted and sends the chat alert
\* again, so r has received at least two chat alerts.
C32_RetryRepeatsChatAlert ==
    \A i, j \in ReqIds :
        ( /\ variant # "Sender"
          /\ reqs[i].outcome = "threw"
          /\ reqs[i].failed = {SecondCollab}
          /\ reqs[i].calls["telegram"] = 1
          /\ RetriesAfterThrow(reqs[i].ref, j)
          /\ i \in reqs[j].prior )
        => /\ reqs[j].admitted
           /\ reqs[j].outcome # "already"
           /\ reqs[j].calls["telegram"] = 1
           /\ Calls(reqs[i].ref, "telegram") >= 2

C32_Witness ==
    \E i, j \in ReqIds :
        /\ variant # "Sender"
        /\ reqs[i].kind = "processOrder" /\ reqs[j].kind = "processOrder"
        /\ reqs[i].failed = {SecondCollab}
        /\ reqs[i].calls[SecondCollab] = 1
        /\ reqs[i].resp = 500
        /\ i \in reqs[j].after
        /\ RetriesAfterThrow(reqs[i].ref, j)
        /\ reqs[j].outcome = "committed"
        /\ Calls(reqs[i].ref, "telegram") = 2
        /\ Calls(reqs[i].ref, SecondCollab) = 2

\* C33: in the Sender.net variant an invocation whose only failure is the
\* list subscription commits its reference and process-order answers
\* 'Processed'; an invocation whose chat alert failed never calls the list
\* subscription, ends by a throw, does not commit the reference, and
\* process-order answers 500.
C33_SenderFailureSwallowed ==
    variant = "Sender" =>
        \A i \in ReqIds :
            /\ (AdmittedEnded(i) /\ reqs[i].failed = {"sender"}) =>
                 /\ reqs[i].calls["telegram"] = 1
                 /\ reqs[i].calls["sender"] = 1
                 /\ reqs[i].outcome = "committed"
                 /\ reqs[i].ref \in processedReferences
                 /\ reqs[i].kind = "processOrder" =>
                      (reqs[i].resp = 200 /\ reqs[i].msg = "Processed")
            /\ "telegram" \in reqs[i].failed =>
                 /\ reqs[i].failed = {"telegram"}
                 /\ reqs[i].calls["sender"] = 0
                 /\ reqs[i].outcome = "threw"
                 /\ reqs[i].kind = "processOrder" =>
                      (reqs[i].resp = 500 /\ reqs[i].msg = "Server error")
                 /\ reqs[i].ref \in processedReferences =>
                      \E k \in RequestsFor(reqs[i].ref) \ {i} :
                          reqs[k].outcome = "committed"

C33_Witness ==
    \E i, j \in ReqIds :
        /\ variant = "Sender"
        /\ reqs[i].kind = "processOrder" /\ reqs[j].kind = "processOrder"
        /\ reqs[i].failed = {"sender"} /\ reqs[i].msg = "Processed"
        /\ reqs[i].ref \in processedReferences
        /\ reqs[j].failed = {"telegram"} /\ reqs[j].resp = 500
        /\ reqs[j].ref \notin processedReferences

\* C34: a webhook with a valid signature whose event is not
\* 'charge.success' is answered 200 in the step that receives it; it never
\* reaches has(), calls neither the gateway nor a collaborator, and that
\* step leaves the processed set and every other request as they were.
C34_OtherEventsOnlyAcknowledged ==
    /\ [](\A i \in ReqIds :
            ( /\ reqs[i].kind = "webhook"
              /\ reqs[i].sigOk
              /\ reqs[i].event # "charge.success" ) =>
                /\ reqs[i].resp = 200
                /\ reqs[i].pc = "done"
                /\ ~reqs[i].checked
                /\ ~reqs[i].admitted
                /\ reqs[i].outcome = "none"
                /\ reqs[i].gateway = 0
                /\ reqs[i].calls = NoCalls)
    /\ [][\A i \in ReqIds :
            ( /\ reqs[i].kind = "none"
              /\ reqs'[i].kind = "webhook"
              /\ reqs'[i].sigOk
              /\ reqs'[i].event # "charge.success" ) =>
                /\ processedReferences' = processedReferences
                /\ \A k \in ReqIds \ {i} : reqs'[k] = reqs[k]]_vars

C34_Witness ==
    \E i, j \in ReqIds :
        /\ reqs[i].outcome = "committed"
        /\ reqs[j].kind = "webhook"
        /\ reqs[j].sigOk
        /\ reqs[j].event = "charge.failed"
        /\ reqs[j].ref = reqs[i].ref
        /\ i \in reqs[j].after
        /\ reqs[j].resp = 200


\* The orchestrator's history of a request that never came near it.
Bypassed(q) ==
    /\ q.gateway = 0
    /\ q.verified = ""
    /\ ~q.sigOk
    /\ ~q.checked
    /\ ~q.admitted
    /\ q.outcome = "none"

\* C35: every send-telegram-notification request has posted one chat alert
\* and every create-fetchapp-order request whose body carries a name has
\* posted one fulfillment order, without a gateway call, a signature check
\* or a look at the processed set, whether or not the reference is in the
\* set, so that each direct request for a reference adds a call for it;
\* a step of such a request leaves the processed set unchanged.
C35_DirectEndpointsBypass ==
    /\ [](\A i \in ReqIds :
            /\ reqs[i].kind = "notify" =>
                 /\ reqs[i].calls = [NoCalls EXCEPT !["telegram"] = 1]
                 /\ Bypassed(reqs[i])
            /\ reqs[i].kind = "createOrder" =>
                 /\ reqs[i].calls =
                      IF reqs[i].invalid THEN NoCalls
                      ELSE [NoCalls EXCEPT !["fetchapp"] = 1]
                 /\ Bypassed(reqs[i]))
    /\ [][\A i \in ReqIds :
            ( /\ reqs'[i] # reqs[i]
              /\ reqs'[i].kind \in {"notify", "createOrder"} ) =>
                processedReferences' = processedReferences]_vars

C35_Witness ==
    \E i, j \in ReqIds :
        /\ reqs[i].kind = "processOrder"
        /\ reqs[i].outcome = "committed"
        /\ reqs[j].kind = "createOrder"
        /\ reqs[j].ref = reqs[i].ref
        /\ i \in reqs[j].after
        /\ reqs[j].ref \in processedReferences
        /\ reqs[j].resp = 200
        /\ Calls(reqs[j].ref, "fetchapp") = 2
        /\ Calls(reqs[j].ref, "telegram") = 1

\* C38: an initialize-payment, verify-payment or health request never
\* reaches has(), never calls a collaborator and is never the invocation
\* that committed a reference, whatever its input and whatever the gateway
\* answers; a step of such a request leaves the processed set unchanged.
C38_ReadOnlyEndpointsFrame ==
    /\ [](\A i \in ReqIds :
            reqs[i].kind \in {"initialize", "verifyPayment", "health"} =>
                /\ ~reqs[i].checked
                /\ ~reqs[i].admitted
                /\ reqs[i].outcome = "none"
                /\ reqs[i].calls = NoCalls
                /\ reqs[i].failed = {})
    /\ [][\A i \in ReqIds :
            ( /\ reqs'[i] # reqs[i]
              /\ reqs'[i].kind \in {"initialize", "verifyPayment", "health"} ) =>
                processedReferences' = processedReferences]_vars

C38_Witness ==
    \E i, j \in ReqIds :
        /\ reqs[i].kind = "verifyPayment"
        /\ reqs[i].verified = "success"
        /\ reqs[i].resp = 200
        /\ reqs[i].ref \notin processedReferences
        /\ reqs[j].kind = "initialize"
        /\ reqs[j].resp = 200


\* C37: for a positive whole checkout amount a, the amount sent to the
\* gateway is a * 100, and the process-order / webhook conversion of the
\* amount sent is a again, with no hundredths.
C37_AmountRoundTrip ==
    ( /\ calc.op = "roundTrip"
      /\ calc.in.t = "number"
      /\ calc.in.n > 0
      /\ calc.in.n % 2 = 0 ) =>
        LET a == calc.in.n \div 2
        IN  /\ calc.sent = Num(2 * (a * 100))
            /\ calc.out = [whole |-> a, hundredths |-> 0]

C37_Witness ==
    /\ calc.op = "roundTrip"
    /\ calc.in = Num(2 * 4900)
    /\ calc.sent = Num(2 * 490000)
    /\ calc.out = [whole |-> 4900, hundredths |-> 0]


\* C36: when every outbound call returns or fails in the end, every
\* process-order request is answered, with status 200, 400 or 500, and
\* once answered its response never changes; as long as the request waits
\* for the gateway or for a collaborator it has no response, so a call that
\* never returns leaves it unanswered.
C36_ProcessOrderAnswered ==
    /\ \A i \in ReqIds :
         (reqs[i].kind = "processOrder") ~>
             (reqs[i].resp \in {200, 400, 500} /\ reqs[i].pc = "done")
    /\ [](\A i \in ReqIds :
            reqs[i].kind = "processOrder" =>
                /\ reqs[i].resp \in {0, 200, 400, 500}
                /\ reqs[i].pc \in {"verifying", "telegram", "second"} <=> reqs[i].resp = 0)
    /\ [][\A i \in ReqIds :
            (reqs[i].kind = "processOrder" /\ reqs[i].resp # 0) =>
                reqs'[i] = reqs[i]]_vars

C36_Witness ==
    \E i, j \in ReqIds :
        /\ reqs[i].kind = "processOrder" /\ reqs[j].kind = "processOrder"
        /\ reqs[i].outcome = "threw" /\ reqs[i].resp = 500
        /\ reqs[j].pc = "second" /\ reqs[j].resp = 0


====
